---------------------------- MODULE Spec2Model ----------------------------
(***************************************************************************)
(* A model of PassGen Pro (src/PassGen.py): the pattern expander, the      *)
(* combination generator, the mutation engine with its leetspeak           *)
(* sub-algorithm, the filter stage, the likelihood scorer, the generate    *)
(* pipeline with its auxiliary generators, and the parallel scraper.       *)
(*                                                                         *)
(* A Python string is a sequence of one-character strings:                 *)
(* "ab1" is <<"a", "b", "1">>.  A Python set of strings is a set of such   *)
(* sequences.                                                              *)
(***************************************************************************)
EXTENDS Integers, Sequences, FiniteSets, TLC

VARIABLES
    mode,          \* which entry point of the program this behaviour runs
    \* generate_from_pattern
    pattern,       \* the mask given to generate_from_pattern
    limit,         \* its limit argument
    results,       \* the closure variable `results`
    stack,         \* pending _generate calls, innermost first: [pattern, current]
    \* generate_combinations
    words_arg,     \* the list the caller passes
    max_length,    \* its max_length argument
    words,         \* the local `words` (after words = words[:30])
    combinations,  \* the local set `combinations`
    cpc,           \* where generate_combinations stands: start, pairs, triples, done
    cidx,          \* the index tuple itertools.combinations yields next
    \* mutate_word
    word,          \* the word given to mutate_word
    leet,          \* config['leet']
    current_year,  \* datetime.now().year
    levels,        \* the level arguments of the successive calls
    returned,      \* the sets the calls made so far returned
    mutations,     \* the local set `mutations` of the running call
    mpc,           \* where mutate_word stands
    \* _apply_leetspeak
    lword,         \* the word given to _apply_leetspeak
    variants,      \* the local set `variants`
    lidx,          \* position of the loop in LEET_MAP.items()
    lpc,           \* where _apply_leetspeak stands: idle, loop, truncate, done
    leet_variants, \* the set _apply_leetspeak returned
    \* PassGenPro.apply_filters
    config,        \* self.config: a function from the keys present to their values
    wordlist,      \* self.wordlist
    stats,         \* self.stats
    prefilter,     \* self.wordlist as the latest apply_filters call found it
    filter_runs,   \* the number of apply_filters calls made
    \* PassGenPro.sort_by_likelihood and PassGenPro.generate
    base_words,    \* self.base_words
    scored,        \* the local list `scored` of the latest sort_by_likelihood call
    sort_log,      \* per sort_by_likelihood call: the seed words it checked, what it returned
    result,        \* what generate returned
    gpc,           \* where generate stands
    \* WebScraper.scrape_urls_parallel
    urls,          \* the list of URLs
    threads,       \* config['threads']
    futures,       \* per submitted task: its state and what scrape_url gave
    collected,     \* the futures the as_completed loop has handled
    all_words,     \* the local set `all_words`
    spc            \* where scrape_urls_parallel stands

patVars == <<pattern, limit, results, stack>>

combVars == <<words_arg, max_length, words, combinations, cpc, cidx>>

mutVars == <<word, leet, current_year, levels, returned, mutations, mpc>>

leetVars == <<lword, variants, lidx, lpc, leet_variants>>

proVars == <<config, wordlist, stats, prefilter, filter_runs>>

genVars == <<base_words, scored, sort_log, result, gpc>>

scrVars == <<urls, threads, futures, collected, all_words, spc>>

vars == <<mode, patVars, combVars, mutVars, leetVars, proVars, genVars, scrVars>>

-----------------------------------------------------------------------------
(* Characters and strings *)

Lowercase == <<"a","b","c","d","e","f","g","h","i","j","k","l","m",
               "n","o","p","q","r","s","t","u","v","w","x","y","z">>

Uppercase == <<"A","B","C","D","E","F","G","H","I","J","K","L","M",
               "N","O","P","Q","R","S","T","U","V","W","X","Y","Z">>

Digits == <<"0","1","2","3","4","5","6","7","8","9">>

Range(s) == { s[i] : i \in DOMAIN s }

Min(a, b) == IF a <= b THEN a ELSE b

LetterIndex(c, alphabet) == CHOOSE i \in DOMAIN alphabet : alphabet[i] = c

\* str.upper, str.lower on one character
char_upper(c) == IF c \in Range(Lowercase) THEN Uppercase[LetterIndex(c, Lowercase)] ELSE c

char_lower(c) == IF c \in Range(Uppercase) THEN Lowercase[LetterIndex(c, Uppercase)] ELSE c

isupper(c) == c \in Range(Uppercase)

islower(c) == c \in Range(Lowercase)

isdigit(c) == c \in Range(Digits)

upper(w) == [i \in DOMAIN w |-> char_upper(w[i])]

lower(w) == [i \in DOMAIN w |-> char_lower(w[i])]

\* str.capitalize: first character upper-cased, the rest lower-cased
capitalize(w) == [i \in DOMAIN w |-> IF i = 1 THEN char_upper(w[i]) ELSE char_lower(w[i])]

\* str.title: a cased character is upper-cased unless it follows a cased one
title(w) ==
    [i \in DOMAIN w |->
        IF i > 1 /\ (isupper(w[i - 1]) \/ islower(w[i - 1]))
        THEN char_lower(w[i]) ELSE char_upper(w[i])]

-----------------------------------------------------------------------------
(* The parts of the state an entry point does not use stay at these values *)

\* generate_combinations is not running
CombIdle ==
    /\ words_arg = <<>>
    /\ max_length = 0
    /\ words = <<>>
    /\ combinations = {}
    /\ cpc = "idle"
    /\ cidx = <<>>

\* generate_from_pattern is not running
PatIdle ==
    /\ pattern = <<>>
    /\ limit = 0
    /\ results = {}
    /\ stack = <<>>

\* mutate_word is not running
MutIdle ==
    /\ word = <<>>
    /\ leet = FALSE
    /\ current_year = 0
    /\ levels = <<>>
    /\ returned = <<>>
    /\ mutations = {}
    /\ mpc = "idle"

\* _apply_leetspeak is not running
LeetIdle ==
    /\ lword = <<>>
    /\ variants = {}
    /\ lidx = 0
    /\ lpc = "idle"
    /\ leet_variants = {}

\* no PassGenPro object is in use
ProIdle ==
    /\ config = <<>>
    /\ wordlist = {}
    /\ stats = <<>>
    /\ prefilter = {}
    /\ filter_runs = 0

\* neither sort_by_likelihood nor generate is running
GenIdle ==
    /\ base_words = {}
    /\ scored = <<>>
    /\ sort_log = <<>>
    /\ result = <<>>
    /\ gpc = "idle"

\* scrape_urls_parallel is not running
ScrIdle ==
    /\ urls = <<>>
    /\ threads = 0
    /\ futures = <<>>
    /\ collected = {}
    /\ all_words = {}
    /\ spc = "idle"

-----------------------------------------------------------------------------
(* generate_from_pattern *)

MaxPatLen == 2
MaxLimit == 5
DefaultLimit == 1000

Punct8 == <<"!","@","#","$","%","^","&","*">>

Punct14 == <<"!","@","#","$","%","^","&","*","(",")","_","+","-","=">>

mappings ==
    [c \in {"@", ",", "%", "^", "?", "d", "l", "u", "s"} |->
        CASE c = "@" -> Lowercase
          [] c = "," -> Uppercase
          [] c = "%" -> Digits
          [] c = "^" -> Punct8
          [] c = "?" -> Lowercase \o Uppercase
          [] c = "d" -> Digits
          [] c = "l" -> Lowercase
          [] c = "u" -> Uppercase
          [] c = "s" -> Punct14]

\* mappings[char][:5] if len(mappings[char]) > 5 else mappings[char]
chars_to_use_untruncated(char) == mappings[char]

chars_to_use(char) ==
    IF Len(mappings[char]) > 5 THEN SubSeq(mappings[char], 1, 5) ELSE mappings[char]

\* if len(results) >= limit: return
limit_reached_strict(res, lim) == Cardinality(res) > lim

limit_reached(res, lim) == Cardinality(res) >= lim

\* if not pattern: results.add(current)
terminal_skip_empty(res, current) == IF current = <<>> THEN res ELSE res \cup {current}

terminal(res, current) == res \cup {current}

\* The calls one _generate(pattern, current) makes, in the order it makes them.
calls(pat, current) ==
    LET char == Head(pat)
        remaining == Tail(pat)
    IN  IF char \in DOMAIN mappings
        THEN [k \in 1..Len(chars_to_use(char)) |->
                 [pattern |-> remaining, current |-> Append(current, chars_to_use(char)[k])]]
        ELSE << [pattern |-> remaining, current |-> Append(current, char)] >>

\* One invocation of _generate: the frame on top of the stack runs up to its
\* first nested call (or returns); its nested calls are left pending in order.
_generate ==
    /\ mode = "pattern"
    /\ stack # <<>>
    /\ LET f == Head(stack)
       IN  IF limit_reached(results, limit)
           THEN /\ stack' = Tail(stack)
                /\ results' = results
           ELSE IF f.pattern = <<>>
           THEN /\ results' = terminal(results, f.current)
                /\ stack' = Tail(stack)
           ELSE /\ stack' = calls(f.pattern, f.current) \o Tail(stack)
                /\ results' = results
    /\ UNCHANGED <<mode, pattern, limit, combVars, mutVars, leetVars, proVars, genVars, scrVars>>

PatChars == {"@", ",", "%", "^", "?", "d", "l", "u", "s", "x"}

RECURSIVE SeqsUpTo(_, _)
SeqsUpTo(S, n) ==
    IF n = 0 THEN { <<>> }
    ELSE LET shorter == SeqsUpTo(S, n - 1)
         IN  shorter \cup { Append(s, c) : s \in shorter, c \in S }

AdminMask == <<"a","d","m","i","n","%","%">>

Patterns == SeqsUpTo(PatChars, MaxPatLen) \cup {AdminMask}

Limits == (-1 .. MaxLimit) \cup {DefaultLimit}

\* generate_from_pattern(pattern, limit): results = set(); _generate(pattern)
InitPattern ==
    /\ mode = "pattern"
    /\ pattern \in Patterns
    /\ limit \in Limits
    /\ results = {}
    /\ stack = << [pattern |-> pattern, current |-> <<>>] >>
    /\ CombIdle /\ MutIdle /\ LeetIdle /\ ProIdle /\ GenIdle /\ ScrIdle

NextPattern == _generate

SpecPattern == InitPattern /\ [][NextPattern]_vars

\* generate_from_pattern has returned
pattern_done == mode = "pattern" /\ stack = <<>>

-----------------------------------------------------------------------------
(* Claims about generate_from_pattern, checked under SpecPattern *)

FirstFiveDigits == {"0", "1", "2", "3", "4"}

\* C1: the mask "admin%%" with limit 1000 yields at most 25 strings, each of
\* the form "admin" + d1 + d2 with d1, d2 among '0'..'4'.
C1_AdminMaskForm ==
    (mode = "pattern" /\ pattern = AdminMask /\ limit = DefaultLimit) =>
        /\ Cardinality(results) <= 25
        /\ \A r \in results :
              /\ Len(r) = 7
              /\ SubSeq(r, 1, 5) = <<"a","d","m","i","n">>
              /\ r[6] \in FirstFiveDigits
              /\ r[7] \in FirstFiveDigits

\* C2: for every pattern and limit >= 0 the result set never holds more than
\* limit entries at any step of the expansion; with limit 0 it stays empty.
C2_NeverMoreThanLimit ==
    (mode = "pattern" /\ limit >= 0) =>
        /\ Cardinality(results) <= limit
        /\ (limit = 0 => results = {})

\* the expansion was cut short by the limit: results are full, calls returned early
C2_Witness ==
    /\ pattern_done
    /\ limit = 3
    /\ pattern = <<"%", "@">>
    /\ Cardinality(results) = 3

\* C3 as stated: for every limit, the empty pattern yields exactly {""}.
C3_EmptyPatternAnyLimit ==
    (pattern_done /\ pattern = <<>>) => results = { <<>> }

\* C3 amended: the empty pattern yields exactly {""} for every limit >= 1,
\* and the empty set for every limit <= 0.
C3_EmptyPatternPositiveLimit ==
    (pattern_done /\ pattern = <<>>) =>
        results = (IF limit >= 1 THEN { <<>> } ELSE {})

C3_Witness ==
    pattern_done /\ pattern = <<>> /\ limit = 1 /\ results = { <<>> }

\* The characters a result may carry at a position holding mask character c.
C4_Choices(c) ==
    CASE c \in {"@", "l", "?"} -> {"a", "b", "c", "d", "e"}
      [] c \in {",", "u"}      -> {"A", "B", "C", "D", "E"}
      [] c \in {"%", "d"}      -> {"0", "1", "2", "3", "4"}
      [] c \in {"^", "s"}      -> {"!", "@", "#", "$", "%"}
      [] OTHER                 -> {c}

RECURSIVE C4_CrossProduct(_)
C4_CrossProduct(pat) ==
    IF pat = <<>> THEN { <<>> }
    ELSE { <<c>> \o r : c \in C4_Choices(Head(pat)), r \in C4_CrossProduct(Tail(pat)) }

RECURSIVE C4_ChoiceCount(_)
C4_ChoiceCount(pat) ==
    IF pat = <<>> THEN 1
    ELSE Cardinality(C4_Choices(Head(pat))) * C4_ChoiceCount(Tail(pat))

-----------------------------------------------------------------------------
(* _apply_leetspeak *)

MaxVariants == 5
MaxLeetLen == 2
MaxWordLen == 2

\* LEET_MAP.items(), in the dict's insertion order
LEET_MAP ==
    << [char |-> "a", replacements |-> <<"@", "4">>],
       [char |-> "e", replacements |-> <<"3">>],
       [char |-> "i", replacements |-> <<"1", "!">>],
       [char |-> "o", replacements |-> <<"0">>],
       [char |-> "s", replacements |-> <<"5", "$">>],
       [char |-> "t", replacements |-> <<"7">>],
       [char |-> "l", replacements |-> <<"1">>],
       [char |-> "g", replacements |-> <<"9">>] >>

\* str.replace(old, new) for one-character old and new
replace(w, old, new) == [i \in DOMAIN w |-> IF w[i] = old THEN new ELSE w[i]]

RECURSIVE subsets_of_size(_, _)
\* the subsets of S with exactly n members
subsets_of_size(S, n) ==
    IF n = 0 THEN { {} }
    ELSE IF Cardinality(S) < n THEN {}
    ELSE LET x == CHOOSE x \in S : TRUE
         IN  subsets_of_size(S \ {x}, n)
             \cup { T \cup {x} : T \in subsets_of_size(S \ {x}, n - 1) }

\* set(list(S)[:n]): a set's iteration order is not specified, so the first n
\* members of list(S) are any n of them
first_of(S, n) ==
    IF Cardinality(S) <= n THEN {S} ELSE subsets_of_size(S, n)

\* the new_variants one LEET_MAP entry builds from the variants it iterates
new_variants(chosen, entry) ==
    UNION { { replace(v, entry.char, entry.replacements[r]),
              replace(v, char_upper(entry.char), entry.replacements[r]) } :
            v \in chosen, r \in DOMAIN entry.replacements }

\* return set(list(variants)[:max_variants * 2])
leet_result_untruncated(vs, max_variants) == {vs}

leet_result(vs, max_variants) == first_of(vs, max_variants * 2)

\* if len(variants) > max_variants * 2: break
leet_break(vs, max_variants) == Cardinality(vs) > max_variants * 2

\* one iteration of: for char, replacements in self.LEET_MAP.items()
leet_round ==
    /\ lpc = "loop"
    /\ LET entry == LEET_MAP[lidx]
       IN  IF entry.char \in Range(lower(lword))
           THEN \E chosen \in first_of(variants, MaxVariants) :
                  /\ variants' = variants \cup new_variants(chosen, entry)
                  /\ IF leet_break(variants', MaxVariants) \/ lidx = Len(LEET_MAP)
                     THEN lpc' = "truncate" /\ lidx' = 0
                     ELSE lpc' = "loop" /\ lidx' = lidx + 1
           ELSE /\ variants' = variants
                /\ IF lidx = Len(LEET_MAP)
                   THEN lpc' = "truncate" /\ lidx' = 0
                   ELSE lpc' = "loop" /\ lidx' = lidx + 1
    /\ UNCHANGED <<mode, lword, leet_variants, patVars, combVars, mutVars, proVars, genVars, scrVars>>

\* the return statement of _apply_leetspeak
leet_return ==
    /\ lpc = "truncate"
    /\ leet_variants' \in leet_result(variants, MaxVariants)
    /\ lpc' = "done"
    /\ UNCHANGED <<mode, lword, variants, lidx, patVars, combVars, mutVars, proVars, genVars, scrVars>>

\* Words with no, few and many leet-mapped letters, in both cases.
LeetWords ==
    { <<>>, <<"x">>, <<"a">>, <<"a", "i">>, <<"a", "A", "i">>,
      <<"a", "e", "t">>, <<"S", "o", "l">>, <<"g", "a", "t", "e">> }

\* _apply_leetspeak(word, max_variants=5): variants = {word}
InitLeet ==
    /\ mode = "leet"
    /\ lword \in LeetWords \cup SeqsUpTo({"a", "S", "x"}, MaxLeetLen)
    /\ variants = {lword}
    /\ lidx = 1
    /\ lpc = "loop"
    /\ leet_variants = {}
    /\ PatIdle /\ CombIdle /\ MutIdle /\ ProIdle /\ GenIdle /\ ScrIdle

NextLeet == leet_round \/ leet_return

SpecLeet == InitLeet /\ [][NextLeet]_vars

-----------------------------------------------------------------------------
(* mutate_word *)

COMMON_SUFFIXES ==
    << <<"1">>, <<"1", "2">>, <<"1", "2", "3">>, <<"1", "2", "3", "4">>, <<"1", "2", "3", "4", "5">>,
       <<"1", "2", "3", "4", "5", "6">>, <<"!">>, <<"@">>, <<"#">>, <<"$">>,
       <<"!", "!">>, <<"!", "@", "#">>, <<"1", "2", "3", "!">>, <<"0", "0">>, <<"0", "1">>,
       <<"1", "1">>, <<"2", "2">>, <<"6", "9">>, <<"7", "7">>, <<"8", "8">>,
       <<"9", "9">>, <<"2", "0", "2", "0">>, <<"2", "0", "2", "1">>, <<"2", "0", "2", "2">>, <<"2", "0", "2", "3">>,
       <<"2", "0", "2", "4">>, <<"2", "0", "2", "5">>, <<"_">>, <<".">>, <<"-">> >>

COMMON_PREFIXES ==
    << <<"a", "d", "m", "i", "n">>, <<"u", "s", "e", "r">>,
       <<"t", "e", "s", "t">>, <<"d", "e", "m", "o">>,
       <<"g", "u", "e", "s", "t">>, <<"r", "o", "o", "t">>,
       <<"s", "u", "p", "e", "r">>, <<"m", "a", "s", "t", "e", "r">>,
       <<"p", "a", "s", "s">>, <<"p", "w", "d">> >>

RECURSIVE str_int(_)
\* str(n) for n >= 0
str_int(n) ==
    IF n < 10 THEN << Digits[n + 1] >>
    ELSE Append(str_int(n \div 10), Digits[(n % 10) + 1])

\* s[-n:]
last_chars(s, n) == IF Len(s) <= n THEN s ELSE SubSeq(s, Len(s) - n + 1, Len(s))

\* s[::-1]
reversed(s) == [i \in DOMAIN s |-> s[Len(s) + 1 - i]]

\* s.startswith(prefix)
startswith(s, prefix) == Len(s) >= Len(prefix) /\ SubSeq(s, 1, Len(prefix)) = prefix

\* ''.join(c for c in word if c.lower() not in 'aeiou')
no_vowels(w) == SelectSeq(w, LAMBDA c : char_lower(c) \notin {"a", "e", "i", "o", "u"})

\* COMMON_SUFFIXES[:10 if level == 1 else None]
suffixes_for_rest(level) ==
    IF level = 1 THEN SubSeq(COMMON_SUFFIXES, 1, 10)
    ELSE SubSeq(COMMON_SUFFIXES, 11, Len(COMMON_SUFFIXES))

suffixes_for(level) ==
    IF level = 1 THEN SubSeq(COMMON_SUFFIXES, 1, 10) ELSE COMMON_SUFFIXES

\* Level 1: case forms, suffixes, year patterns
basic_mutations(w, level, year) ==
    { lower(w), upper(w), capitalize(w), title(w) }
    \cup UNION { { w \o suffixes_for(level)[k], capitalize(w) \o suffixes_for(level)[k] } :
                 k \in DOMAIN suffixes_for(level) }
    \cup UNION { { w \o str_int(year + year_offset),
                   w \o last_chars(str_int(year + year_offset), 2) } :
                 year_offset \in -2..2 }

\* Level 2: reverse, double, remove vowels
advanced_mutations(w) ==
    { reversed(w) }
    \cup (IF Len(w) <= 8 THEN { w \o w } ELSE {})
    \cup (IF no_vowels(w) # <<>> /\ Len(no_vowels(w)) >= 3 THEN { no_vowels(w) } ELSE {})

\* Level 3: prefixes, character substitution
extreme_mutations(w) ==
    UNION { IF ~startswith(lower(w), COMMON_PREFIXES[k])
            THEN { COMMON_PREFIXES[k] \o w, COMMON_PREFIXES[k] \o <<"_">> \o w }
            ELSE {} : k \in DOMAIN COMMON_PREFIXES }
    \cup { replace(replace(w, "a", "@"), "s", "$"),
           replace(replace(w, "e", "3"), "o", "0") }

\* the level argument of the running call
mlevel == levels[Len(returned) + 1]

\* where control goes after the level-1 block and after the level-2 block
after_basic(level) == IF level >= 2 THEN "advanced" ELSE "return"

after_advanced(level) == IF level >= 3 THEN "extreme" ELSE "return"

\* mutations = {word}; if not word: return mutations; the level-1 block
m_basic ==
    /\ mode = "mutate"
    /\ mpc = "basic"
    /\ IF word = <<>>
       THEN /\ mutations' = {word}
            /\ mpc' = "return"
       ELSE /\ mutations' = {word} \cup basic_mutations(word, mlevel, current_year)
            /\ mpc' = after_basic(mlevel)
    /\ UNCHANGED <<mode, word, leet, current_year, levels, returned,
                   patVars, combVars, leetVars, proVars, genVars, scrVars>>

\* the level-2 block up to the call of _apply_leetspeak
m_advanced ==
    /\ mode = "mutate"
    /\ mpc = "advanced"
    /\ mutations' = mutations \cup advanced_mutations(word)
    /\ IF leet
       THEN /\ mpc' = "leet"
            /\ lword' = word
            /\ variants' = {word}
            /\ lidx' = 1
            /\ lpc' = "loop"
            /\ leet_variants' = {}
       ELSE /\ mpc' = after_advanced(mlevel)
            /\ UNCHANGED leetVars
    /\ UNCHANGED <<mode, word, leet, current_year, levels, returned,
                   patVars, combVars, proVars, genVars, scrVars>>

\* mutations.update(leet_variants)
m_leet ==
    /\ mode = "mutate"
    /\ mpc = "leet"
    /\ lpc = "done"
    /\ mutations' = mutations \cup leet_variants
    /\ mpc' = after_advanced(mlevel)
    /\ lpc' = "idle"
    /\ UNCHANGED <<mode, word, leet, current_year, levels, returned,
                   lword, variants, lidx, leet_variants, patVars, combVars, proVars, genVars, scrVars>>

\* the level-3 block
m_extreme ==
    /\ mode = "mutate"
    /\ mpc = "extreme"
    /\ mutations' = mutations \cup extreme_mutations(word)
    /\ mpc' = "return"
    /\ UNCHANGED <<mode, word, leet, current_year, levels, returned,
                   patVars, combVars, leetVars, proVars, genVars, scrVars>>

\* return mutations; the next call, if any, starts
m_return ==
    /\ mode = "mutate"
    /\ mpc = "return"
    /\ returned' = Append(returned, mutations)
    /\ mutations' = {}
    /\ mpc' = IF Len(returned') < Len(levels) THEN "basic" ELSE "done"
    /\ UNCHANGED <<mode, word, leet, current_year, levels,
                   patVars, combVars, leetVars, proVars, genVars, scrVars>>

MutWords ==
    { <<"a", "d", "m", "i", "n">>, <<"P", "a", "s", "s">>, <<"u", "s", "e", "r", "1">>,
      <<"a", "b", " ", "c", "d">>, <<"t", "r", "e", "e", "f", "o", "r", "t", "s">>, <<"a", "e", "t">> }

\* mutate_word(word, 1), then mutate_word(word, level) for each level
InitMutate ==
    /\ mode = "mutate"
    /\ word \in MutWords \cup SeqsUpTo({"a", "S", "1"}, MaxWordLen)
    /\ leet \in BOOLEAN
    /\ current_year \in {2023, 2026}
    /\ levels \in { <<1, l>> : l \in 1..3 }
    /\ returned = <<>>
    /\ mutations = {}
    /\ mpc = "basic"
    /\ PatIdle /\ CombIdle /\ LeetIdle /\ ProIdle /\ GenIdle /\ ScrIdle

NextMutate ==
    m_basic \/ m_advanced \/ m_leet \/ m_extreme \/ m_return \/ leet_round \/ leet_return

SpecMutate == InitMutate /\ [][NextMutate]_vars

mutate_done == mode = "mutate" /\ mpc = "done"

-----------------------------------------------------------------------------
(* Claims about mutate_word and _apply_leetspeak *)

\* C7: for every word (the empty word included) and either leet setting,
\* mutate_word(w, 1) is a subset of mutate_word(w, 3), and w, lower(w),
\* upper(w) and capitalize(w) are in the result at every level.
C7_Level1WithinLevel3 ==
    mode = "mutate" =>
        /\ \A k \in DOMAIN returned :
              { word, lower(word), upper(word), capitalize(word) } \subseteq returned[k]
        /\ (mutate_done /\ levels = <<1, 3>>) => returned[1] \subseteq returned[2]

\* both calls returned, leet on, the level-3 result strictly larger
C7_Witness ==
    /\ mutate_done
    /\ levels = <<1, 3>>
    /\ leet
    /\ word = <<"P", "a", "s", "s">>
    /\ <<"P", "a", "s", "s", "!">> \in returned[1]
    /\ <<"P", "@", "$", "$">> \in returned[2]
    /\ returned[1] # returned[2]

\* C8: _apply_leetspeak(word, max_variants=5) returns at most 10 strings,
\* whatever size the working variant set reached.
C8_LeetAtMostTen ==
    lpc = "done" => Cardinality(leet_variants) <= 10

\* the working set outgrew the cap and the result was cut to 10
C8_Witness ==
    /\ mode = "leet"
    /\ lpc = "done"
    /\ Cardinality(variants) > 10
    /\ Cardinality(leet_variants) = 10

-----------------------------------------------------------------------------
(* generate_combinations *)

MaxWords == 3
MaxCombLength == 4
PairWordLimit == 30
TripleWordLimit == 10

\* words = words[:30]
first_words(ws) == SubSeq(ws, 1, Min(Len(ws), PairWordLimit))

\* if len(w1) + len(w2) <= max_length
pair_fits_strict(w1, w2, maxlen) == Len(w1) + Len(w2) < maxlen

pair_fits(w1, w2, maxlen) == Len(w1) + Len(w2) <= maxlen

\* the six combinations.add calls of the pair loop
pair_forms(w1, w2) ==
    { w1 \o w2,
      w2 \o w1,
      capitalize(w1) \o capitalize(w2),
      w1 \o <<"_">> \o w2,
      w1 \o <<".">> \o w2,
      w1 \o <<"-">> \o w2 }

\* the two combinations.add calls of the triple loop
triple_forms(c1, c2, c3) ==
    { c1 \o c2 \o c3, capitalize(c1) \o capitalize(c2) \o capitalize(c3) }

\* if len(combined) <= max_length
triple_fits(c1, c2, c3, maxlen) == Len(c1 \o c2 \o c3) <= maxlen

\* the index tuple itertools.combinations(range(n), r) yields after idx, in
\* 1-based positions; <<>> when idx was the last
next_pair(idx, n) ==
    IF idx[2] < n THEN <<idx[1], idx[2] + 1>>
    ELSE IF idx[1] + 1 < n THEN <<idx[1] + 1, idx[1] + 2>>
    ELSE <<>>

next_triple(idx, n) ==
    IF idx[3] < n THEN <<idx[1], idx[2], idx[3] + 1>>
    ELSE IF idx[2] + 1 < n THEN <<idx[1], idx[2] + 1, idx[2] + 2>>
    ELSE IF idx[1] + 2 < n THEN <<idx[1] + 1, idx[1] + 2, idx[1] + 3>>
    ELSE <<>>

\* where control goes once the pair loop is exhausted: if len(words) >= 3
enter_triples(ws) ==
    IF Len(ws) >= 3 THEN [pc |-> "triples", idx |-> <<1, 2, 3>>]
    ELSE [pc |-> "done", idx |-> <<>>]

\* combinations = set(); words = words[:30]; enter the pair loop
comb_start ==
    /\ mode = "combine"
    /\ cpc = "start"
    /\ combinations' = {}
    /\ words' = first_words(words_arg)
    /\ IF Len(words') >= 2
       THEN cpc' = "pairs" /\ cidx' = <<1, 2>>
       ELSE cpc' = enter_triples(words').pc /\ cidx' = enter_triples(words').idx
    /\ UNCHANGED <<mode, words_arg, max_length, patVars, mutVars, leetVars, proVars, genVars, scrVars>>

\* one iteration of: for w1, w2 in itertools.combinations(words, 2)
comb_pair ==
    /\ mode = "combine"
    /\ cpc = "pairs"
    /\ LET w1 == words[cidx[1]]
           w2 == words[cidx[2]]
           nxt == next_pair(cidx, Len(words))
       IN  /\ combinations' =
                IF pair_fits(w1, w2, max_length)
                THEN combinations \cup pair_forms(w1, w2)
                ELSE combinations
           /\ IF nxt # <<>>
              THEN cpc' = "pairs" /\ cidx' = nxt
              ELSE cpc' = enter_triples(words).pc /\ cidx' = enter_triples(words).idx
    /\ UNCHANGED <<mode, words_arg, max_length, words, patVars, mutVars, leetVars, proVars, genVars, scrVars>>

\* one iteration of: for combo in itertools.combinations(words[:10], 3)
comb_triple ==
    /\ mode = "combine"
    /\ cpc = "triples"
    /\ LET c1 == words[cidx[1]]
           c2 == words[cidx[2]]
           c3 == words[cidx[3]]
           nxt == next_triple(cidx, Min(Len(words), TripleWordLimit))
       IN  /\ combinations' =
                IF triple_fits(c1, c2, c3, max_length)
                THEN combinations \cup triple_forms(c1, c2, c3)
                ELSE combinations
           /\ IF nxt # <<>>
              THEN cpc' = "triples" /\ cidx' = nxt
              ELSE cpc' = "done" /\ cidx' = <<>>
    /\ UNCHANGED <<mode, words_arg, max_length, words, patVars, mutVars, leetVars, proVars, genVars, scrVars>>

\* The words the short lists are drawn from: an empty word, mixed case, a
\* word holding a separator.
WordPool == { <<>>, <<"a">>, <<"b", "C">>, <<"_", "a">> }

LateWord == <<"z", "z">>

\* A long list: the pool's words in rotation, then LateWord from position
\* `from` on.
long_list(n, from) ==
    [k \in 1..n |->
        IF k >= from THEN LateWord
        ELSE CASE k % 3 = 0 -> <<"a">>
               [] k % 3 = 1 -> <<"b", "C">>
               [] OTHER     -> <<>>]

LongLists ==
    { long_list(TripleWordLimit + 1, TripleWordLimit + 1),
      long_list(PairWordLimit, PairWordLimit),
      long_list(PairWordLimit + 1, PairWordLimit + 1),
      long_list(PairWordLimit + 2, PairWordLimit) }

WordLists == SeqsUpTo(WordPool, MaxWords) \cup LongLists

InitCombine ==
    /\ mode = "combine"
    /\ words_arg \in WordLists
    /\ max_length \in 0..MaxCombLength
    /\ words = <<>>
    /\ combinations = {}
    /\ cpc = "start"
    /\ cidx = <<>>
    /\ PatIdle /\ MutIdle /\ LeetIdle /\ ProIdle /\ GenIdle /\ ScrIdle

NextCombine == comb_start \/ comb_pair \/ comb_triple

SpecCombine == InitCombine /\ [][NextCombine]_vars

comb_done == mode = "combine" /\ cpc = "done"

-----------------------------------------------------------------------------
(* Claims about generate_combinations, checked under SpecCombine *)

C5_PairWords == Min(Len(words_arg), 30)

C5_TripleWords == Min(Len(words_arg), 10)

C5_SixForms(w1, w2) ==
    { w1 \o w2, w2 \o w1, capitalize(w1) \o capitalize(w2),
      w1 \o <<"_">> \o w2, w1 \o <<".">> \o w2, w1 \o <<"-">> \o w2 }

\* s is accounted for by a pair within budget among the first 30 words
C5_FromPair(s) ==
    \E i \in 1..C5_PairWords : \E j \in (i + 1)..C5_PairWords :
        /\ Len(words_arg[i]) + Len(words_arg[j]) <= max_length
        /\ s \in C5_SixForms(words_arg[i], words_arg[j])

\* s is accounted for by a triple among the first 10 words
C5_FromTriple(s) ==
    \E i \in 1..C5_TripleWords : \E j \in (i + 1)..C5_TripleWords :
      \E k \in (j + 1)..C5_TripleWords :
        LET a == words_arg[i]
            b == words_arg[j]
            c == words_arg[k]
        IN  /\ Len(a) + Len(b) + Len(c) <= max_length
            /\ s \in { a \o b \o c, capitalize(a) \o capitalize(b) \o capitalize(c) }

\* C5: every pair i < j among the first 30 words whose summed length is within
\* maxLength has all six forms in the result; a pair over the budget and the
\* words beyond the first 30 contribute nothing: every string of the result
\* is a form of a pair within budget among the first 30 words, or of a triple.
C5_PairForms ==
    comb_done =>
        /\ \A i \in 1..C5_PairWords : \A j \in (i + 1)..C5_PairWords :
              Len(words_arg[i]) + Len(words_arg[j]) <= max_length =>
                  C5_SixForms(words_arg[i], words_arg[j]) \subseteq combinations
        /\ \A s \in combinations : C5_FromPair(s) \/ C5_FromTriple(s)

\* 31 words: a pair within budget, a pair over it, and a 31st word that
\* would fit the budget with "a" had it been paired
C5_Witness ==
    /\ comb_done
    /\ Len(words_arg) = 31
    /\ words_arg[31] = LateWord
    /\ max_length = 3
    /\ <<"a", "-", "b", "C">> \in combinations
    /\ <<"b", "C", "b", "C">> \notin combinations
    /\ <<"a", "z", "z">> \notin combinations

\* C6: every string generate_combinations returns has length at most maxLength.
C6_WithinLengthBudget ==
    comb_done => \A s \in combinations : Len(s) <= max_length

-----------------------------------------------------------------------------
(* PassGenPro.apply_filters *)

MaxFilterLen == 4
MaxCandidates == 2
MaxFilterRuns == 2
DefaultMinLength == 1
DefaultMaxLength == 128

\* the characters of '!@#$%^&*()_+-=[]{}|;:,.<>?'
SpecialChars ==
    { "!", "@", "#", "$", "%", "^", "&", "*", "(", ")", "_", "+", "-", "=",
      "[", "]", "{", "}", "|", ";", ":", ",", ".", "<", ">", "?" }

\* self.config.get(key, default)
config_get(cfg, key, default) == IF key \in DOMAIN cfg THEN cfg[key] ELSE default

\* self.config.get(key) used as a condition: a missing key gives None
config_flag(cfg, key) == key \in DOMAIN cfg /\ cfg[key]

\* if not (min_len <= len(password) <= max_len): continue
length_ok_strict(n, cfg) ==
    /\ config_get(cfg, "min_length", DefaultMinLength) < n
    /\ n < config_get(cfg, "max_length", DefaultMaxLength)

length_ok(n, cfg) ==
    /\ config_get(cfg, "min_length", DefaultMinLength) <= n
    /\ n <= config_get(cfg, "max_length", DefaultMaxLength)

\* the four complexity tests, each a `continue` when it fails
complexity_ok(password, cfg) ==
    IF config_flag(cfg, "require_upper") /\ ~\E i \in DOMAIN password : isupper(password[i])
    THEN FALSE
    ELSE IF config_flag(cfg, "require_lower") /\ ~\E i \in DOMAIN password : islower(password[i])
    THEN FALSE
    ELSE IF config_flag(cfg, "require_digit") /\ ~\E i \in DOMAIN password : isdigit(password[i])
    THEN FALSE
    ELSE IF config_flag(cfg, "require_special")
            /\ ~\E i \in DOMAIN password : password[i] \in SpecialChars
    THEN FALSE
    ELSE TRUE

\* the set `filtered` the loop over self.wordlist builds
filtered_set_by_count(wl, cfg) ==
    { password \in wl : length_ok(Cardinality(wl), cfg) /\ complexity_ok(password, cfg) }

filtered_set(wl, cfg) ==
    { password \in wl : length_ok(Len(password), cfg) /\ complexity_ok(password, cfg) }

apply_filters ==
    /\ mode = "filter"
    /\ filter_runs < MaxFilterRuns
    /\ LET filtered == filtered_set(wordlist, config)
       IN  /\ stats' = [stats EXCEPT !.filtered = Cardinality(wordlist) - Cardinality(filtered)]
           /\ wordlist' = filtered
    /\ prefilter' = wordlist
    /\ filter_runs' = filter_runs + 1
    /\ UNCHANGED <<mode, config, patVars, combVars, mutVars, leetVars, genVars, scrVars>>

\* Candidates of every length from 0 to 5 and every mix of character classes.
CandidatePool ==
    { <<>>, <<"A">>, <<"a", "b", "c">>,
      <<"a", "b", "c", "1">>, <<"a", "b", "c", "1", "!">>, <<"A", "B", "C", "1", "!">>,
      <<"a", "[", "B">>, <<"9", "~">> }

LengthOptions == { [min_length |-> lo, max_length |-> hi] : lo, hi \in 0..MaxFilterLen }
                 \cup { [min_length |-> lo] : lo \in 0..MaxFilterLen }
                 \cup { [max_length |-> hi] : hi \in 0..MaxFilterLen }
                 \cup { <<>> }

FlagOptions == [ {"require_upper", "require_lower", "require_digit", "require_special"}
                 -> BOOLEAN ]

Configs == { lens @@ flags : lens \in LengthOptions, flags \in FlagOptions }

\* PassGenPro.__init__'s stats
InitStats == [base_words |-> 0, mutations |-> 0, combinations |-> 0, total |-> 0, filtered |-> 0]

\* A PassGenPro whose wordlist holds the merged candidates, before filtering
InitFilter ==
    /\ mode = "filter"
    /\ config \in Configs
    /\ wordlist \in { S \in SUBSET CandidatePool : Cardinality(S) <= MaxCandidates }
    /\ stats = InitStats
    /\ prefilter = {}
    /\ filter_runs = 0
    /\ PatIdle /\ CombIdle /\ MutIdle /\ LeetIdle /\ GenIdle /\ ScrIdle

NextFilter == apply_filters

SpecFilter == InitFilter /\ [][NextFilter]_vars

-----------------------------------------------------------------------------
(* Claims about apply_filters, checked under SpecFilter *)

\* C9: filtering is idempotent: a second apply_filters with the same
\* configuration leaves the candidate set as the first run left it.
C9_FilterIdempotent ==
    [][(mode = "filter" /\ filter_runs >= 1 /\ filter_runs' = filter_runs + 1)
        => wordlist' = wordlist]_vars

\* a second run took place after a first one that kept some candidates
C9_Witness ==
    /\ mode = "filter"
    /\ filter_runs = 2
    /\ config_flag(config, "require_digit")
    /\ wordlist # {}
    /\ wordlist = prefilter

C10_MinLength == IF "min_length" \in DOMAIN config THEN config["min_length"] ELSE 1

C10_MaxLength == IF "max_length" \in DOMAIN config THEN config["max_length"] ELSE 128

C10_Has(p, class) == \E i \in 1..Len(p) : p[i] \in class

C10_Chars(s) == { s[i] : i \in 1..Len(s) }

C10_Kept(p) ==
    /\ C10_MinLength <= Len(p)
    /\ Len(p) <= C10_MaxLength
    /\ (config["require_upper"] => C10_Has(p, C10_Chars(Uppercase)))
    /\ (config["require_lower"] => C10_Has(p, C10_Chars(Lowercase)))
    /\ (config["require_digit"] => C10_Has(p, C10_Chars(Digits)))
    /\ (config["require_special"] => C10_Has(p, SpecialChars))

\* C10: apply_filters keeps a candidate iff its length is in
\* [minLength, maxLength] and every enabled requirement flag is met by one of
\* its characters; with no flag only the length bound applies; with
\* minLength > maxLength the result is empty.
C10_KeptIffLengthAndClasses ==
    (mode = "filter" /\ filter_runs >= 1) =>
        /\ wordlist = { p \in prefilter : C10_Kept(p) }
        /\ (C10_MinLength > C10_MaxLength => wordlist = {})

\* digit and special required: one candidate kept, one dropped
C10_Witness ==
    /\ mode = "filter"
    /\ filter_runs = 1
    /\ config["require_digit"] /\ config["require_special"]
    /\ ~config["require_upper"] /\ ~config["require_lower"]
    /\ prefilter = { <<"a", "b", "c", "1">>, <<"a", "b", "c", "1", "!">> }
    /\ wordlist = { <<"a", "b", "c", "1", "!">> }

-----------------------------------------------------------------------------
(* PassGenPro.sort_by_likelihood *)

MaxSortCandidates == 3
MaxSortCalls == 2
MaxPermuted == 3
ListChunk == 40
SeedWordsChecked == 20

\* runs of printable ASCII characters in code-point order, each with the code
\* point of its first character (the double quote, the backslash and the
\* backquote are left out)
AsciiRuns ==
    << [first |-> 32, chars |->
          << " ","!" >>],
       [first |-> 35, chars |->
          << "#","$","%","&","'","(",")","*","+",",","-",".","/","0","1","2",
             "3","4","5","6","7","8","9",":",";","<","=",">","?","@","A","B",
             "C","D","E","F","G","H","I","J","K","L","M","N","O","P","Q","R",
             "S","T","U","V","W","X","Y","Z","[" >>],
       [first |-> 93, chars |->
          << "]","^","_" >>],
       [first |-> 97, chars |->
          << "a","b","c","d","e","f","g","h","i","j","k","l","m","n","o","p",
             "q","r","s","t","u","v","w","x","y","z","{","|","}","~" >>] >>

\* the code point of every character of AsciiRuns
OrdTable ==
    [c \in UNION { Range(AsciiRuns[r].chars) : r \in DOMAIN AsciiRuns } |->
        LET run == CHOOSE r \in Range(AsciiRuns) : c \in Range(r.chars)
        IN  run.first + LetterIndex(c, run.chars) - 1]

\* ord(c)
ord(c) == OrdTable[c]

RECURSIVE str_lt(_, _)
\* a < b on strings: by code point, a proper prefix first
str_lt(a, b) ==
    IF b = <<>> THEN FALSE
    ELSE IF a = <<>> THEN TRUE
    ELSE IF Head(a) # Head(b) THEN ord(Head(a)) < ord(Head(b))
    ELSE str_lt(Tail(a), Tail(b))

\* sub in s
contains(s, sub) ==
    \E i \in 0..(Len(s) - Len(sub)) : SubSeq(s, i + 1, i + Len(sub)) = sub

RecentYears == << <<"2", "0", "2", "3">>, <<"2", "0", "2", "4">>, <<"2", "0", "2", "5">> >>

CommonPatterns ==
    << <<"a", "d", "m", "i", "n">>, <<"u", "s", "e", "r">>, <<"p", "a", "s", "s">>,
       <<"1", "2", "3">>, <<"t", "e", "s", "t">> >>

\* if 8 <= len(password) <= 12: score += 20; elif 6 <= len(password) <= 16: score += 10
length_score(password) ==
    IF 8 <= Len(password) /\ Len(password) <= 12 THEN 20
    ELSE IF 6 <= Len(password) /\ Len(password) <= 16 THEN 10
    ELSE 0

RECURSIVE year_score_stacking(_, _)
year_score_stacking(password, k) ==
    IF k > Len(RecentYears) THEN 0
    ELSE (IF contains(password, RecentYears[k]) THEN 15 ELSE 0)
         + year_score_stacking(password, k + 1)

RECURSIVE year_score(_, _)
\* for year in ['2023', '2024', '2025']: if year in password: score += 15; break
year_score(password, k) ==
    IF k > Len(RecentYears) THEN 0
    ELSE IF contains(password, RecentYears[k]) THEN 15
    ELSE year_score(password, k + 1)

\* if any(p in password.lower() for p in [...]): score += 10
pattern_score(password) ==
    IF \E k \in DOMAIN CommonPatterns : contains(lower(password), CommonPatterns[k])
    THEN 10 ELSE 0

\* if any(c.isupper() ...) and any(c.islower() ...): score += 5
case_score(password) ==
    IF (\E i \in DOMAIN password : isupper(password[i]))
       /\ (\E i \in DOMAIN password : islower(password[i]))
    THEN 5 ELSE 0

\* if password and password[-1].isdigit(): score += 8
digit_score(password) ==
    IF password # <<>> /\ isdigit(password[Len(password)]) THEN 8 ELSE 0

\* for word in list(self.base_words)[:20]:
\*     if len(word) >= 4 and word in password.lower(): score += 25; break
base_word_score(password, checked) ==
    IF \E w \in checked : Len(w) >= 4 /\ contains(lower(password), w) THEN 25 ELSE 0

\* the score one iteration of the loop over self.wordlist computes
score_of(password, checked) ==
    length_score(password) + year_score(password, 1) + pattern_score(password)
    + case_score(password) + digit_score(password) + base_word_score(password, checked)

\* key=lambda x: (-x[0], x[1]), compared as tuples
key_lt_score_only(x, y) == -x.score < -y.score

key_lt(x, y) ==
    \/ -x.score < -y.score
    \/ (x.score = y.score /\ str_lt(x.pwd, y.pwd))

\* l.sort(key=...): a stable sort by the key
sort_list(l) == SortSeq(l, key_lt)

\* every ordering of a set
Perms(S) ==
    { f \in [1..Cardinality(S) -> S] : \A x \in S : \E i \in DOMAIN f : f[i] = x }

RECURSIVE take(_, _)
\* up to n members of S, one after another
take(S, n) ==
    IF n = 0 \/ S = {} THEN <<>>
    ELSE LET x == CHOOSE x \in S : TRUE
         IN  <<x>> \o take(S \ {x}, n - 1)

RECURSIVE listed(_)
\* the members of S in one order, built ListChunk members at a time
listed(S) ==
    IF S = {} THEN <<>>
    ELSE take(S, ListChunk) \o listed(S \ Range(take(S, ListChunk)))

\* list(S): a set's iteration order is not specified.  Every ordering of a
\* small set is taken; of a larger one, one ordering and its reverse.
list_orders(S) ==
    IF Cardinality(S) <= MaxPermuted THEN Perms(S)
    ELSE { listed(S), reversed(listed(S)) }

\* [pwd for score, pwd in scored]
passwords_of(l) == [i \in DOMAIN l |-> l[i].pwd]

\* the list `scored` after the loop over self.wordlist (in iteration order
\* `order`) and scored.sort
scored_list(order, checked) ==
    sort_list([i \in DOMAIN order |->
                  [score |-> score_of(order[i], checked), pwd |-> order[i]]])

sort_by_likelihood ==
    /\ mode = "sort"
    /\ Len(sort_log) < MaxSortCalls
    /\ \E order \in list_orders(wordlist) :
         \E checked \in first_of(base_words, SeedWordsChecked) :
            /\ scored' = scored_list(order, checked)
            /\ sort_log' = Append(sort_log,
                   [checked |-> checked, returned |-> passwords_of(scored')])
    /\ UNCHANGED <<mode, base_words, result, gpc,
                   patVars, combVars, mutVars, leetVars, proVars, scrVars>>

\* Candidates with no bonus, with every bonus, with two recent years, with
\* equal scores, and of lengths outside every bonus range.
SortCandidates ==
    { <<>>,
      <<"a", "b", "c">>,
      <<"a", "b", "d">>,
      <<"a", "B">>,
      <<"A", "d", "m", "i", "n", "2", "0", "2", "4">>,
      <<"2", "0", "2", "3", "2", "0", "2", "4">>,
      <<"t", "e", "s", "t", "1", "2">>,
      <<"U", "s", "e", "r", "2", "0", "2", "5", "a", "d", "m", "i", "n">>,
      <<"a", "a", "a", "a", "a", "a", "a", "a", "a", "a", "a", "a", "a", "a", "a", "a", "a">> }

\* twenty seed words of three characters
FillerWords == { <<"q", Digits[i], Digits[j]>> : i \in 1..2, j \in 1..10 }

FewSeedWords == { {}, { <<"a", "d", "m", "i", "n">> }, { <<"a", "b", "c">>, <<"u", "s", "e", "r">> } }

\* more seed words than one call checks
ManySeedWords == FillerWords \cup { <<"a", "d", "m", "i", "n">> }

\* the candidates ranked against ManySeedWords
SeedCandidates == { <<"A", "d", "m", "i", "n", "2", "0", "2", "4">>, <<"2", "0", "2", "3", "2", "0", "2", "4">> }

\* A PassGenPro holding filtered candidates and collected seed words
InitSort ==
    /\ mode = "sort"
    /\ config = <<>>
    /\ \/ /\ base_words \in FewSeedWords
          /\ wordlist \in { S \in SUBSET SortCandidates : Cardinality(S) <= MaxSortCandidates }
       \/ /\ base_words = ManySeedWords
          /\ wordlist \in SUBSET SeedCandidates
    /\ stats = InitStats
    /\ prefilter = {}
    /\ filter_runs = 0
    /\ scored = <<>>
    /\ sort_log = <<>>
    /\ result = <<>>
    /\ gpc = "idle"
    /\ PatIdle /\ CombIdle /\ MutIdle /\ LeetIdle /\ ScrIdle

NextSort == sort_by_likelihood

SpecSort == InitSort /\ [][NextSort]_vars

-----------------------------------------------------------------------------
(* Claims about sort_by_likelihood, checked under SpecSort *)

\* a comes before b in ascending string order
C11_Before(a, b) ==
    \E k \in 1..(Len(b)) :
        /\ \A i \in 1..(k - 1) : i <= Len(a) /\ a[i] = b[i]
        /\ (k > Len(a) \/ (k <= Len(a) /\ ord(a[k]) < ord(b[k])))

\* C11: sort_by_likelihood returns the candidates of the filtered set, each
\* exactly once, in descending score order with equal scores in ascending
\* string order; two invocations on the same candidates and the same seed
\* words in the same iteration order return the same sequence.
C11_DeterministicRanking ==
    (mode = "sort" /\ sort_log # <<>>) =>
        /\ Len(scored) = Cardinality(wordlist)
        /\ { scored[i].pwd : i \in DOMAIN scored } = wordlist
        /\ sort_log[Len(sort_log)].returned = [i \in DOMAIN scored |-> scored[i].pwd]
        /\ \A i, j \in DOMAIN scored :
              i < j => \/ scored[i].score > scored[j].score
                       \/ /\ scored[i].score = scored[j].score
                          /\ C11_Before(scored[i].pwd, scored[j].pwd)
        /\ \A m, n \in DOMAIN sort_log :
              sort_log[m].checked = sort_log[n].checked
                  => sort_log[m].returned = sort_log[n].returned

\* two calls checked the same seed words; three candidates, two of them tied
C11_Witness ==
    /\ mode = "sort"
    /\ Len(sort_log) = 2
    /\ base_words = { <<"a", "d", "m", "i", "n">> }
    /\ sort_log[1].checked = sort_log[2].checked
    /\ sort_log[2].returned = << <<"A", "d", "m", "i", "n", "2", "0", "2", "4">>, <<>>, <<"a", "b", "c">> >>

C12_Has(p, sub) == \E i \in 1..(Len(p) - Len(sub) + 1) : \A k \in 1..Len(sub) : p[i + k - 1] = sub[k]

C12_Lowered(p) == lower(p)

C12_LengthBonus(p) ==
    IF Len(p) \in 8..12 THEN 20 ELSE IF Len(p) \in 6..16 THEN 10 ELSE 0

C12_Expected(p, checked) ==
    C12_LengthBonus(p)
    + (IF \E y \in { <<"2", "0", "2", "3">>, <<"2", "0", "2", "4">>, <<"2", "0", "2", "5">> } : C12_Has(p, y) THEN 15 ELSE 0)
    + (IF \E t \in { <<"a", "d", "m", "i", "n">>, <<"u", "s", "e", "r">>, <<"p", "a", "s", "s">>, <<"1", "2", "3">>, <<"t", "e", "s", "t">> } :
             C12_Has(C12_Lowered(p), t) THEN 10 ELSE 0)
    + (IF (\E i \in 1..Len(p) : p[i] \in Range(Uppercase))
          /\ (\E i \in 1..Len(p) : p[i] \in Range(Lowercase)) THEN 5 ELSE 0)
    + (IF Len(p) > 0 /\ p[Len(p)] \in Range(Digits) THEN 8 ELSE 0)
    + (IF \E w \in checked : Len(w) >= 4 /\ C12_Has(C12_Lowered(p), w) THEN 25 ELSE 0)

\* C12: a candidate's score is the sum of the bonuses: 20 for length in
\* [8,12], else 10 for length in [6,16]; 15 once for any recent year; 10 for
\* a common token in the lower-cased form; 5 for mixed case; 8 for a final
\* digit; 25 once for a seed word of length >= 4 among the first 20 checked.
\* It is between 0 and 83.
C12_ScoreIsSumOfBonuses ==
    (mode = "sort" /\ sort_log # <<>>) =>
        \A i \in DOMAIN scored :
            /\ scored[i].score = C12_Expected(scored[i].pwd, sort_log[Len(sort_log)].checked)
            /\ scored[i].score >= 0
            /\ scored[i].score <= 83

\* every bonus at once (83), two recent years counted once (43), and a seed
\* word left out of the 20 checked
C12_Witness ==
    /\ mode = "sort"
    /\ Len(sort_log) = 2
    /\ base_words = ManySeedWords
    /\ <<"a", "d", "m", "i", "n">> \in sort_log[1].checked
    /\ <<"a", "d", "m", "i", "n">> \notin sort_log[2].checked
    /\ scored = << [score |-> 58, pwd |-> <<"A", "d", "m", "i", "n", "2", "0", "2", "4">>],
                   [score |-> 43, pwd |-> <<"2", "0", "2", "3", "2", "0", "2", "4">>] >>
    /\ sort_log[1].returned = sort_log[2].returned

-----------------------------------------------------------------------------
(* PassGenPro.generate and the generators it calls *)

KEYBOARD_WALKS ==
    << <<"q", "w", "e", "r", "t", "y">>,
       <<"q", "w", "e", "r", "t", "y", "u", "i", "o", "p">>,
       <<"a", "s", "d", "f", "g", "h">>,
       <<"a", "s", "d", "f", "g", "h", "j", "k", "l">>,
       <<"z", "x", "c", "v", "b", "n">>,
       <<"z", "x", "c", "v", "b", "n", "m">>,
       <<"1", "2", "3", "4", "5", "6">>,
       <<"1", "2", "3", "4", "5", "6", "7", "8", "9", "0">>,
       <<"q", "a", "z", "w", "s", "x">>,
       <<"q", "a", "z", "x", "s", "w">>,
       <<"q", "w", "e", "a", "s", "d">>,
       <<"q", "w", "e", "a", "s", "d", "z", "x", "c">>,
       <<"1", "q", "a", "z", "2", "w", "s", "x">>,
       <<"1", "q", "a", "z", "2", "w", "s", "x", "3", "e", "d", "c">>,
       <<"z", "a", "q", "1", "x", "s", "w", "2">>,
       <<"p", "a", "s", "s", "w", "o", "r", "d">>,
       <<"p", "a", "s", "s", "w", "0", "r", "d">>,
       <<"p", "@", "s", "s", "w", "0", "r", "d">> >>

\* walks = set(KEYBOARD_WALKS), then the reversed, the capitalized and the
\* upper-cased forms, each update iterating over what the set then holds
generate_keyboard_walks ==
    LET walks == Range(KEYBOARD_WALKS) \cup { reversed(w) : w \in Range(KEYBOARD_WALKS) }
        with_capitalized == walks \cup { capitalize(w) : w \in walks }
    IN  with_capitalized \cup { upper(w) : w \in with_capitalized }

DefaultStartYear == 2015
BirthYears == 1970..2009

\* '01' ... '12'
Months == { IF m < 10 THEN <<"0">> \o str_int(m) ELSE str_int(m) : m \in 1..12 }

\* '123', '321', '111', ..., '999', '000'
DigitRuns == { <<"1", "2", "3">>, <<"3", "2", "1">> } \cup { <<d, d, d>> : d \in Range(Digits) }

\* str(year) and str(year)[-2:] of every year of a range
year_strings(years) ==
    { str_int(y) : y \in years } \cup { last_chars(str_int(y), 2) : y \in years }

\* generate_dates(start_year, end_year); end_year 0 stands for None, and
\* `not end_year` holds for both
generate_dates(start_year, end_year, year) ==
    LET end == IF end_year = 0 THEN year + 2 ELSE end_year
    IN  year_strings(start_year..(end - 1)) \cup Months \cup DigitRuns \cup year_strings(BirthYears)

RECURSIVE generate_from(_, _, _)
\* _generate run to completion from a stack of pending calls
generate_from(stk, res, lim) ==
    IF stk = <<>> THEN res
    ELSE IF limit_reached(res, lim) THEN generate_from(Tail(stk), res, lim)
    ELSE IF Head(stk).pattern = <<>>
    THEN generate_from(Tail(stk), terminal(res, Head(stk).current), lim)
    ELSE generate_from(calls(Head(stk).pattern, Head(stk).current) \o Tail(stk), res, lim)

\* generate_from_pattern(pattern, limit)
generate_from_pattern(pat, lim) ==
    generate_from(<< [pattern |-> pat, current |-> <<>>] >>, {}, lim)

DefaultCombLength == 32

\* generate_combinations(words, max_length)
generate_combinations(ws, maxlen) ==
    LET w == first_words(ws)
        n == Len(w)
        n3 == Min(n, TripleWordLimit)
    IN  UNION { IF i < j /\ pair_fits(w[i], w[j], maxlen) THEN pair_forms(w[i], w[j]) ELSE {} :
                i, j \in 1..n }
        \cup (IF n >= 3
              THEN UNION { IF i < j /\ j < k /\ triple_fits(w[i], w[j], w[k], maxlen)
                           THEN triple_forms(w[i], w[j], w[k]) ELSE {} :
                           i, j, k \in 1..n3 }
              ELSE {})

RECURSIVE leet_variant_sets(_, _, _)
\* the values `variants` can hold when the loop over LEET_MAP, at entry idx
\* with `variants` = vs, has ended
leet_variant_sets(w, vs, idx) ==
    IF idx > Len(LEET_MAP) THEN {vs}
    ELSE IF LEET_MAP[idx].char \in Range(lower(w))
    THEN UNION { LET grown == vs \cup new_variants(chosen, LEET_MAP[idx])
                 IN  IF leet_break(grown, MaxVariants) THEN {grown}
                     ELSE leet_variant_sets(w, grown, idx + 1) :
                 chosen \in first_of(vs, MaxVariants) }
    ELSE leet_variant_sets(w, vs, idx + 1)

\* the sets _apply_leetspeak(word, max_variants=5) can return
_apply_leetspeak(w) ==
    UNION { leet_result(vs, MaxVariants) : vs \in leet_variant_sets(w, {w}, 1) }

\* the sets mutate_word(word, level) can return
mutate_word(w, level, leet_on, year) ==
    IF w = <<>> THEN { {w} }
    ELSE LET basic == {w} \cup basic_mutations(w, level, year)
             advanced == IF level >= 2 THEN advanced_mutations(w) ELSE {}
             extreme == IF level >= 3 THEN extreme_mutations(w) ELSE {}
         IN  IF level >= 2 /\ leet_on
             THEN { basic \cup advanced \cup lv \cup extreme : lv \in _apply_leetspeak(w) }
             ELSE { basic \cup advanced \cup extreme }

\* self.config.get(key) of a list or string option: a missing key gives None,
\* which like the empty list and the empty string counts as false
config_seq(cfg, key) == IF key \in DOMAIN cfg THEN cfg[key] ELSE <<>>

RECURSIVE lstrip(_)
lstrip(s) == IF s # <<>> /\ Head(s) = " " THEN lstrip(Tail(s)) ELSE s

\* line.strip()
strip(s) == reversed(lstrip(reversed(lstrip(s))))

\* the words collect_base_words adds to self.base_words; the value of
\* input_file stands for the lines of the file, and no URL is configured
collect_base_words(cfg) ==
    { lower(w) : w \in Range(config_seq(cfg, "words")) }
    \cup { lower(strip(line)) :
           line \in { l \in Range(config_seq(cfg, "input_file")) :
                      strip(l) # <<>> /\ Len(strip(l)) >= 3 /\ Len(strip(l)) <= 20 } }
    \cup { lower(n) : n \in Range(config_seq(cfg, "first_names"))
                           \cup Range(config_seq(cfg, "last_names")) }
    \cup (IF config_seq(cfg, "company") # <<>> THEN { lower(cfg["company"]) } ELSE {})

\* if not self.base_words and not self.config.get('keyboard_walks')
\*    and not self.config.get('patterns'): return []
no_input(bw, cfg) ==
    /\ bw = {}
    /\ ~config_flag(cfg, "keyboard_walks")
    /\ config_seq(cfg, "patterns") = <<>>

\* mutation_level = 2 if self.config.get('leet') else 1
mutation_level(cfg) == IF config_flag(cfg, "leet") THEN 2 ELSE 1

RECURSIVE mutate_all(_, _, _, _)
\* what the loop `for word in self.base_words` can add to the wordlist, and
\* the sum of len(mutations) it adds to stats['mutations']
mutate_all(ws, level, leet_on, year) ==
    IF ws = {} THEN { [added |-> {}, count |-> 0] }
    ELSE LET w == CHOOSE x \in ws : TRUE
         IN  { [added |-> m \cup r.added, count |-> Cardinality(m) + r.count] :
               m \in mutate_word(w, level, leet_on, year),
               r \in mutate_all(ws \ {w}, level, leet_on, year) }

CombinedWords == 50
CrossedWords == 20
CrossedDates == 20

\* l[:n]
first_items(l, n) == SubSeq(l, 1, Min(n, Len(l)))

\* word + date and date + word for the first 20 words and dates
crossed(ws, ds) == UNION { { w \o d, d \o w } : w \in ws, d \in ds }

NameSuffixes == << <<"1", "2", "3">>, <<"2", "0", "2", "4">>, <<"!">>, <<"1">> >>

\* generate_from_names
generate_from_names(cfg) ==
    LET company == lower(config_seq(cfg, "company"))
    IN  UNION { { first \o last, last \o first, first \o <<".">> \o last,
                  first \o <<"_">> \o last, <<first[1]>> \o last, Append(first, last[1]) }
                \cup (IF company # <<>>
                      THEN { first \o company, first \o <<"@">> \o company,
                             <<first[1], last[1]>> \o company }
                      ELSE {})
                \cup UNION { { first \o last \o NameSuffixes[k],
                               <<first[1]>> \o last \o NameSuffixes[k] } :
                             k \in DOMAIN NameSuffixes } :
                first \in { lower(n) : n \in Range(config_seq(cfg, "first_names")) },
                last \in { lower(n) : n \in Range(config_seq(cfg, "last_names")) } }

\* self.stats['filtered'] = len(self.wordlist) - len(filtered)
filtered_count_kept(wl, filtered) == Cardinality(filtered)

filtered_count(wl, filtered) == Cardinality(wl) - Cardinality(filtered)

\* collect_base_words and the early return
g_collect ==
    /\ mode = "generate"
    /\ gpc = "collect"
    /\ base_words' = base_words \cup collect_base_words(config)
    /\ stats' = [stats EXCEPT !.base_words = Cardinality(base_words')]
    /\ IF no_input(base_words', config)
       THEN result' = <<>> /\ gpc' = "returned"
       ELSE result' = result /\ gpc' = "mutate"
    /\ UNCHANGED <<wordlist, prefilter, filter_runs, scored, sort_log, mode, config, patVars, combVars, mutVars, leetVars, scrVars>>

\* if self.base_words: mutate every base word
g_mutate ==
    /\ mode = "generate"
    /\ gpc = "mutate"
    /\ IF base_words # {}
       THEN \E out \in mutate_all(base_words, mutation_level(config),
                                  config_flag(config, "leet"), current_year) :
               /\ wordlist' = wordlist \cup out.added
               /\ stats' = [stats EXCEPT !.mutations = @ + out.count]
       ELSE UNCHANGED <<wordlist, stats>>
    /\ gpc' = "combine"
    /\ UNCHANGED <<base_words, prefilter, filter_runs, scored, sort_log, result, mode, config, patVars, combVars, mutVars, leetVars, scrVars>>

\* if self.config.get('combinations', True) and len(self.base_words) > 1
g_combine ==
    /\ mode = "generate"
    /\ gpc = "combine"
    /\ IF config_get(config, "combinations", TRUE) /\ Cardinality(base_words) > 1
       THEN \E order \in list_orders(base_words) :
               LET made == generate_combinations(first_items(order, CombinedWords),
                               config_get(config, "max_length", DefaultCombLength))
               IN  /\ wordlist' = wordlist \cup made
                   /\ stats' = [stats EXCEPT !.combinations = Cardinality(made)]
       ELSE UNCHANGED <<wordlist, stats>>
    /\ gpc' = "dates"
    /\ UNCHANGED <<base_words, prefilter, filter_runs, scored, sort_log, result, mode, config, patVars, combVars, mutVars, leetVars, scrVars>>

\* if self.config.get('dates'): the dates alone and crossed with base words
g_dates ==
    /\ mode = "generate"
    /\ gpc = "dates"
    /\ IF config_flag(config, "dates")
       THEN LET dates == generate_dates(config_get(config, "start_year", DefaultStartYear),
                                        config_get(config, "end_year", 0), current_year)
            IN  \E ws \in first_of(base_words, CrossedWords) :
                   \E dl \in list_orders(dates) :
                      wordlist' = wordlist \cup dates
                                  \cup crossed(ws, Range(first_items(dl, CrossedDates)))
       ELSE UNCHANGED wordlist
    /\ gpc' = "keyboard"
    /\ UNCHANGED <<base_words, stats, prefilter, filter_runs, scored, sort_log, result, mode, config, patVars, combVars, mutVars, leetVars, scrVars>>

\* if self.config.get('keyboard_walks')
g_keyboard ==
    /\ mode = "generate"
    /\ gpc = "keyboard"
    /\ wordlist' = IF config_flag(config, "keyboard_walks")
                   THEN wordlist \cup generate_keyboard_walks
                   ELSE wordlist
    /\ gpc' = "patterns"
    /\ UNCHANGED <<base_words, stats, prefilter, filter_runs, scored, sort_log, result, mode, config, patVars, combVars, mutVars, leetVars, scrVars>>

\* if self.config.get('patterns'): every pattern expanded with the default limit
g_patterns ==
    /\ mode = "generate"
    /\ gpc = "patterns"
    /\ wordlist' = wordlist \cup UNION { generate_from_pattern(p, DefaultLimit) :
                                         p \in Range(config_seq(config, "patterns")) }
    /\ gpc' = "names"
    /\ UNCHANGED <<base_words, stats, prefilter, filter_runs, scored, sort_log, result, mode, config, patVars, combVars, mutVars, leetVars, scrVars>>

\* if self.config.get('first_names') and self.config.get('last_names')
g_names ==
    /\ mode = "generate"
    /\ gpc = "names"
    /\ wordlist' = IF config_seq(config, "first_names") # <<>>
                      /\ config_seq(config, "last_names") # <<>>
                   THEN wordlist \cup generate_from_names(config)
                   ELSE wordlist
    /\ gpc' = "filter"
    /\ UNCHANGED <<base_words, stats, prefilter, filter_runs, scored, sort_log, result, mode, config, patVars, combVars, mutVars, leetVars, scrVars>>

\* self.apply_filters()
g_filter ==
    /\ mode = "generate"
    /\ gpc = "filter"
    /\ LET filtered == filtered_set(wordlist, config)
       IN  /\ stats' = [stats EXCEPT !.filtered = filtered_count(wordlist, filtered)]
           /\ wordlist' = filtered
    /\ prefilter' = wordlist
    /\ filter_runs' = filter_runs + 1
    /\ gpc' = "order"
    /\ UNCHANGED <<base_words, scored, sort_log, result, mode, config, patVars, combVars, mutVars, leetVars, scrVars>>

\* result = self.sort_by_likelihood() or list(self.wordlist); the total; return
g_order ==
    /\ mode = "generate"
    /\ gpc = "order"
    /\ \E order \in list_orders(wordlist) :
          IF config_flag(config, "smart_order")
          THEN \E checked \in first_of(base_words, SeedWordsChecked) :
                  /\ scored' = scored_list(order, checked)
                  /\ result' = passwords_of(scored')
          ELSE /\ scored' = scored
               /\ result' = order
    /\ stats' = [stats EXCEPT !.total = Len(result')]
    /\ gpc' = "returned"
    /\ UNCHANGED <<base_words, wordlist, prefilter, filter_runs, sort_log, mode, config, patVars, combVars, mutVars, leetVars, scrVars>>

\* Where the seed words come from: nowhere, the command line (one, two or
\* three words), names with a company, a file with a blank, a short and a
\* padded line.
SeedOptions ==
    { <<>>,
      [words |-> << <<"S", "u", "n">> >>],
      [words |-> << <<"s", "u", "n">>, <<"a", "t">> >>],
      [words |-> << <<"a", "b">>, <<"c", "d", "e">>, <<"f">> >>],
      [first_names |-> << <<"A", "l">> >>, last_names |-> << <<"D", "o", "e">> >>, company |-> <<"A", "c", "m", "e">>],
      [input_file |-> << <<" ", "m", "o", "o", "n", " ">>, <<"a", "b">>, <<>> >>] }

\* Which auxiliary generators and patterns are enabled
AuxOptions ==
    { flags @@ pats :
      flags \in [ {"dates", "keyboard_walks"} -> BOOLEAN ],
      pats \in { <<>>, [patterns |-> << <<"x", "%">> >>] } }

\* Mutation, combination, date-range, filter and ordering options
RunOptions ==
    { <<>>,
      [mutation_level |-> 1],
      [mutation_level |-> 2],
      [mutation_level |-> 3],
      [mutation_level |-> 3, leet |-> TRUE],
      [leet |-> TRUE, smart_order |-> TRUE],
      [smart_order |-> TRUE, min_length |-> 4, max_length |-> 8, require_digit |-> TRUE],
      [combinations |-> FALSE, start_year |-> 2020, end_year |-> 2022, min_length |-> 3,
       require_upper |-> TRUE] }

\* Two seed words, one with three leet letters: _apply_leetspeak has to cut
LeetConfigs ==
    { [words |-> << <<"a", "t", "e">>, <<"s", "u", "n">> >>, leet |-> TRUE, smart_order |-> so, mutation_level |-> 2] :
      so \in BOOLEAN }

GenConfigs ==
    { seed @@ aux @@ run : seed \in SeedOptions, aux \in AuxOptions, run \in RunOptions }
    \cup LeetConfigs

\* PassGenPro(config), then generate(); datetime.now() is in 2026
InitGenerate ==
    /\ mode = "generate"
    /\ config \in GenConfigs
    /\ wordlist = {}
    /\ stats = InitStats
    /\ prefilter = {}
    /\ filter_runs = 0
    /\ base_words = {}
    /\ scored = <<>>
    /\ sort_log = <<>>
    /\ result = <<>>
    /\ gpc = "collect"
    /\ word = <<>>
    /\ leet = FALSE
    /\ current_year = 2026
    /\ levels = <<>>
    /\ returned = <<>>
    /\ mutations = {}
    /\ mpc = "idle"
    /\ PatIdle /\ CombIdle /\ LeetIdle /\ ScrIdle

NextGenerate ==
    \/ g_collect
    \/ g_mutate
    \/ g_combine
    \/ g_dates
    \/ g_keyboard
    \/ g_patterns
    \/ g_names
    \/ g_filter
    \/ g_order

SpecGenerate == InitGenerate /\ [][NextGenerate]_vars

\* generate has returned
generate_done == mode = "generate" /\ gpc = "returned"

-----------------------------------------------------------------------------
(* Claims about generate, checked under SpecGenerate *)

\* C13: after any run of generate, the early return included, the total
\* counter equals the number of elements of the final filtered candidate set
\* and the length of the returned sequence, and the filtered counter equals
\* the size of the merged set before filtering minus its size after.
C13_CountersMatchOutput ==
    generate_done =>
        /\ stats.total = Cardinality(wordlist)
        /\ stats.total = Len(result)
        /\ Range(result) = wordlist
        /\ stats.filtered = Cardinality(prefilter) - Cardinality(wordlist)
        /\ wordlist \subseteq prefilter

\* a smart-ordered run with dates, keyboard walks and a pattern in which the
\* filter dropped candidates and kept others
C13_Witness ==
    /\ generate_done
    /\ config_flag(config, "smart_order")
    /\ config_flag(config, "dates")
    /\ config_flag(config, "keyboard_walks")
    /\ config_seq(config, "patterns") # <<>>
    /\ base_words = { <<"s", "u", "n">>, <<"a", "t">> }
    /\ "min_length" \in DOMAIN config
    /\ stats.filtered > 0
    /\ stats.total > 0
    /\ stats.total = Len(result)
    /\ <<"s", "u", "n", "1">> \in wordlist
    /\ <<"s", "u", "n">> \in prefilter \ wordlist

\* C14: every seed word is mutated at the level the configuration's
\* mutation-level option sets: with level 3 the prefix and
\* character-substitution variants of each seed word are in the merged
\* candidate set, with level 2 the reversed, doubled and vowel-stripped ones.
C14_MutatedAtConfiguredLevel ==
    (mode = "generate" /\ gpc = "filter" /\ "mutation_level" \in DOMAIN config) =>
        \A w \in base_words :
            /\ config["mutation_level"] = 3 => extreme_mutations(w) \subseteq wordlist
            /\ config["mutation_level"] = 2 => advanced_mutations(w) \subseteq wordlist

\* the dates and the keyboard walks a run with this configuration generates
C15_Dates ==
    generate_dates(config_get(config, "start_year", DefaultStartYear),
                   config_get(config, "end_year", 0), current_year)

\* C15: in a run with date patterns enabled every string of generate_dates
\* that passes the filter is in the final output, also when no seed word was
\* collected; likewise the keyboard walks when they are enabled.
C15_AuxiliaryInOutput ==
    generate_done =>
        /\ config_flag(config, "dates") =>
              filtered_set(C15_Dates, config) \subseteq Range(result)
        /\ config_flag(config, "keyboard_walks") =>
              filtered_set(generate_keyboard_walks, config) \subseteq Range(result)

-----------------------------------------------------------------------------
(* WebScraper.scrape_urls_parallel *)

MaxUrls == 3
MaxThreads == 2
DefaultThreads == 4

\* the pages the scraped sites serve, as the word set scrape_url extracts
PageWords ==
    [u \in {"http://a", "http://b"} |->
        IF u = "http://a"
        THEN { <<"a", "d", "m", "i", "n">>, <<"l", "o", "g", "i", "n">> }
        ELSE { <<"l", "o", "g", "i", "n">>, <<"a", "c", "m", "e">> }]

\* what scrape_url can return: the page's words, or what it held when a
\* request failed and the error was swallowed
scrape_url(u) == { PageWords[u], {} }

\* max_workers = min(len(urls), self.config.get('threads', 4))
max_workers_per_url(n, t) == n

max_workers(n, t) == Min(n, t)

\* the futures whose task a worker thread is running
running == { i \in DOMAIN futures : futures[i].state = "running" }

\* the work queue is first in, first out: the next task a free worker takes
next_queued(i) ==
    /\ futures[i].state = "pending"
    /\ \A j \in DOMAIN futures : j < i => futures[j].state # "pending"

\* if not WEB_SCRAPING_AVAILABLE: return set()
scr_unavailable ==
    /\ mode = "scrape"
    /\ spc = "unavailable"
    /\ spc' = "returned"
    /\ UNCHANGED <<urls, threads, futures, collected, all_words, mode, patVars, combVars, mutVars, leetVars, proVars, genVars>>

\* all_words = set(); the executor is built (ValueError unless
\* max_workers > 0) and every URL is submitted
scr_submit ==
    /\ mode = "scrape"
    /\ spc = "start"
    /\ IF max_workers(Len(urls), threads) <= 0
       THEN /\ spc' = "raised"
            /\ futures' = futures
       ELSE /\ spc' = "pool"
            /\ futures' = [i \in DOMAIN urls |->
                              [url |-> urls[i], state |-> "pending", words |-> {}]]
    /\ all_words' = {}
    /\ UNCHANGED <<urls, threads, collected, mode, patVars, combVars, mutVars, leetVars, proVars, genVars>>

\* a free worker thread takes the next queued task
task_start ==
    /\ mode = "scrape"
    /\ spc = "pool"
    /\ Cardinality(running) < max_workers(Len(urls), threads)
    /\ \E i \in DOMAIN futures :
          /\ next_queued(i)
          /\ futures' = [futures EXCEPT ![i].state = "running"]
    /\ UNCHANGED <<urls, threads, collected, all_words, spc, mode, patVars, combVars, mutVars, leetVars, proVars, genVars>>

\* scrape_url returns its words in a worker thread
task_return ==
    /\ mode = "scrape"
    /\ spc = "pool"
    /\ \E i \in running :
          \E ws \in scrape_url(futures[i].url) :
             futures' = [futures EXCEPT ![i].state = "done", ![i].words = ws]
    /\ UNCHANGED <<urls, threads, collected, all_words, spc, mode, patVars, combVars, mutVars, leetVars, proVars, genVars>>

\* scrape_url raises in a worker thread; the future holds the exception
task_raise ==
    /\ mode = "scrape"
    /\ spc = "pool"
    /\ \E i \in running :
          futures' = [futures EXCEPT ![i].state = "failed"]
    /\ UNCHANGED <<urls, threads, collected, all_words, spc, mode, patVars, combVars, mutVars, leetVars, proVars, genVars>>

\* one iteration of: for future in as_completed(futures), with its
\* try: all_words.update(future.result(timeout=30)) / except Exception
scr_collect ==
    /\ mode = "scrape"
    /\ spc = "pool"
    /\ \E i \in DOMAIN futures \ collected :
          /\ futures[i].state \in {"done", "failed"}
          /\ collected' = collected \cup {i}
          /\ all_words' = IF futures[i].state = "done"
                          THEN all_words \cup futures[i].words
                          ELSE all_words
    /\ UNCHANGED <<urls, threads, futures, spc, mode, patVars, combVars, mutVars, leetVars, proVars, genVars>>

\* the loop is exhausted, the executor shuts down: return all_words
scr_return ==
    /\ mode = "scrape"
    /\ spc = "pool"
    /\ collected = DOMAIN futures
    /\ spc' = "returned"
    /\ UNCHANGED <<urls, threads, futures, collected, all_words, mode, patVars, combVars, mutVars, leetVars, proVars, genVars>>

\* scrape_urls_parallel(urls) on a scraper configured with `threads`
InitScrape ==
    /\ mode = "scrape"
    /\ urls \in SeqsUpTo(DOMAIN PageWords, MaxUrls)
    /\ threads \in (0..MaxThreads) \cup {DefaultThreads}
    /\ futures = <<>>
    /\ collected = {}
    /\ all_words = {}
    /\ spc \in {"start", "unavailable"}
    /\ PatIdle /\ CombIdle /\ MutIdle /\ LeetIdle /\ ProIdle /\ GenIdle

NextScrape ==
    \/ scr_unavailable
    \/ scr_submit
    \/ task_start
    \/ task_return
    \/ task_raise
    \/ scr_collect
    \/ scr_return

\* every worker thread and the calling thread keep running
SpecScrape == InitScrape /\ [][NextScrape]_vars /\ WF_vars(NextScrape)

-----------------------------------------------------------------------------
(* Claims about scrape_urls_parallel, checked under SpecScrape *)

\* the call has not raised, no more than min(number of URLs, threads) tasks
\* run at once, and what is returned is the union of the word sets of the
\* tasks that succeeded
C16_Tolerant ==
    /\ spc # "raised"
    /\ Cardinality(running) <= Min(Len(urls), threads)
    /\ (spc = "returned" /\ futures # <<>>) =>
          /\ \A i \in DOMAIN futures : futures[i].state \in {"done", "failed"}
          /\ all_words = UNION { futures[i].words :
                                 i \in { j \in DOMAIN futures : futures[j].state = "done" } }

=============================================================================
